---- MODULE Spec2Model ----
(***************************************************************************)
(* Model of the libeufin EBICS integration test:                           *)
(*   src/integration-tests/util.py       (checkPort, kill, startSandbox,   *)
(*                                        startNexus)                      *)
(*   src/integration-tests/test-ebics.py (the scenario script)             *)
(*                                                                         *)
(* The script is one sequential Python process.  Its position is pc; the   *)
(* environment (build tool, ports, the two services, HTTP responses) is    *)
(* chosen nondeterministically at each blocking call.  Leaving the main    *)
(* flow (exit(n), an uncaught exception, or the end of the script) moves   *)
(* to pc = "atexit", where the registered hooks run last-registered first, *)
(* and then to pc = "done".                                                *)
(*                                                                         *)
(* assertResponse (imported from util at test-ebics.py:6) and the module   *)
(* json_checks (test-ebics.py:7) are not part of the sources at hand; they *)
(* are modelled from the specification, sections 4.4 and 4.5.              *)
(***************************************************************************)
EXTENDS Integers, Sequences, FiniteSets, TLC

\* ------------------------------------------------------------------ bounds

\* Longest transaction list a response of GET .../transactions carries.
MaxTx == 2

\* ------------------------------------------------------- program constants

SandboxPort == 5000

NexusPort == 5001

SandboxAttempts == 10

NexusAttempts == 80

ExitSkip == 77

ExitFail == 1

ExpectedBefore == 0

ExpectedAfter == 1

SandboxSleep == 2

NexusSleep == 1

Services == {"sandbox", "nexus"}

Ports == {SandboxPort, NexusPort}

\* The HTTP requests of the scenario, in the order the script issues them.
Steps ==
  << "host", "subscribers", "bank-accounts", "users", "bank-connections",
     "send-ini", "send-hia", "send-hpb", "download-tsd", "import-accounts",
     "fetch-transactions", "get-transactions", "payment-initiations",
     "get-payment-initiation", "submit", "fetch-transactions-again",
     "get-transactions-again" >>

NSteps == Len(Steps)

StepIndex(name) == CHOOSE k \in 1..NSteps : Steps[k] = name

\* The values resp.json().get("uuid") can take: None (field absent or null),
\* the empty string, or a real identifier.
UuidValues == {"None", "", "uuid-1"}

VARIABLES
  pc,            \* position of the script
  i,             \* loop variable of the readiness poll
  step,          \* index in Steps of the current scenario request
  exitCode,      \* exit status of the process (meaningful once pc = "done")
  cause,         \* what made the main flow end
  atexitHooks,   \* registered exit hooks, in registration order
  killPhase,     \* position inside the running kill(): "idle" | "terminated"
  proc,          \* per service: the child process
  bindAttempts,  \* per port: bind() calls made by checkPort
  bindResult,    \* per port: how the bind went: "none" | "bound" | "error"
  probes,        \* per service: GETs of the root endpoint issued
  ready,         \* per service: a probe succeeded and start<Service> returned
  issued,        \* scenario requests issued, in order (indices in Steps)
  outstanding,   \* scenario requests sent and not yet answered
  succeeded,     \* scenario requests whose response passed assertResponse
  resp,          \* the response the script holds
  uuid,          \* PREPARED_PAYMENT_UUID ("unset" before step 5.a)
  txSeen,        \* lengths of the transaction lists inspected, in order
  stdout,        \* lines printed
  lastProbe,     \* the latest readiness probe: its service and what get() did
  slept,         \* per service: seconds spent in sleep() by the poll loop
  trace,         \* supervisor statements executed, in order, with their outcome
  cp,            \* checkPort called on its own: the ports, the socket, the calls
  jc             \* CheckJsonTop.check called on its own: document, checks, progress

vars ==
  << pc, i, step, exitCode, cause, atexitHooks, killPhase, proc, bindAttempts,
     bindResult, probes, ready, issued, outstanding, succeeded, resp, uuid,
     txSeen, stdout, lastProbe, slept, trace, cp, jc >>

NoProc ==
  [spawned |-> FALSE, alive |-> FALSE, terminateCalls |-> 0,
   hookKills |-> 0, waited |-> FALSE]

NoResp == [ok |-> TRUE, hasTransactions |-> FALSE, transactions |-> << >>,
           uuid |-> "None"]

\* The state of the test process when the script starts.
ScriptInit ==
  /\ pc = "sb_rm"
  /\ i = 0
  /\ step = 1
  /\ exitCode = 0
  /\ cause = "none"
  /\ atexitHooks = << >>
  /\ killPhase = "idle"
  /\ proc = [s \in Services |-> NoProc]
  /\ bindAttempts = [p \in Ports |-> 0]
  /\ bindResult = [p \in Ports |-> "none"]
  /\ probes = [s \in Services |-> 0]
  /\ ready = [s \in Services |-> FALSE]
  /\ issued = << >>
  /\ outstanding = {}
  /\ succeeded = {}
  /\ resp = NoResp
  /\ uuid = "unset"
  /\ txSeen = << >>
  /\ stdout = << >>
  /\ lastProbe = [svc |-> "none", result |-> "none"]
  /\ slept = [s \in Services |-> 0]
  /\ trace = << >>

\* cp and jc while the script runs: checkPort and the JSON checkers have not
\* been called on their own.
NoCp == [pc |-> "off"]

NoJc == [pc |-> "off"]

Init ==
  /\ ScriptInit
  /\ cp = NoCp
  /\ jc = NoJc

\* ------------------------------------------------------ leaving the script

\* exit(code) / an uncaught exception: the main flow ends, the interpreter
\* runs the exit hooks and the process ends with `code`.
Exit(code, why, lines) ==
  /\ exitCode' = code
  /\ cause' = why
  /\ stdout' = stdout \o lines
  /\ pc' = "atexit"

\* An exception nobody catches: traceback on stderr, exit status 1.
Uncaught(why) == Exit(ExitFail, why, << >>)

Goto(next) ==
  /\ pc' = next
  /\ UNCHANGED << exitCode, cause, stdout >>

\* ------------------------------------------------------------ util.py parts

\* check_call(cmd): returns when the command exits 0, raises
\* CalledProcessError otherwise (not caught anywhere).
CheckCallIgnoringStatus(status) == "return"

CheckCallOutcome(status) == IF status = "zero" THEN "return" ELSE "raise"

check_call(here, next) ==
  /\ pc = here
  /\ \E status \in {"zero", "nonzero"} :
       /\ trace' = Append(trace, [op |-> here, ok |-> status = "zero"])
       /\ IF CheckCallOutcome(status) = "return"
            THEN Goto(next)
            ELSE Uncaught("build")
  /\ UNCHANGED << i, step, atexitHooks, killPhase, proc, bindAttempts,
                  bindResult, cp, jc, probes, ready, issued, outstanding, succeeded,
                  resp, uuid, txSeen, lastProbe, slept >>

\* What checkPort does after the bind: carry on, or exit(77).
CheckPortBusySwallowed(free) == "continue"

CheckPortOutcome(free) == IF free THEN "continue" ELSE "exit"

checkPort(here, port, next) ==
  /\ pc = here
  /\ bindAttempts' = [bindAttempts EXCEPT ![port] = @ + 1]
  /\ \E free \in BOOLEAN :
       /\ bindResult' =
            [bindResult EXCEPT ![port] = IF free THEN "bound" ELSE "error"]
       /\ trace' = Append(trace, [op |-> here, ok |-> free])
       /\ IF CheckPortOutcome(free) = "continue"
            THEN Goto(next)
            ELSE Exit(ExitSkip, "port_busy", << "Port is not available" >>)
  /\ UNCHANGED << i, step, atexitHooks, killPhase, proc, probes, ready, issued,
                  outstanding, succeeded, resp, uuid, txSeen, lastProbe, slept,
                  cp, jc >>

\* Popen(...): the child runs, or Popen raises (OSError) and there is none.
Popen(here, s, next) ==
  /\ pc = here
  /\ \E started \in BOOLEAN :
       /\ trace' = Append(trace, [op |-> here, ok |-> started])
       /\ IF started
            THEN /\ proc' = [proc EXCEPT ![s].spawned = TRUE, ![s].alive = TRUE]
                 /\ Goto(next)
            ELSE /\ UNCHANGED proc
                 /\ Uncaught("spawn")
  /\ UNCHANGED << i, step, atexitHooks, killPhase, bindAttempts, bindResult, cp, jc,
                  probes, ready, issued, outstanding, succeeded, resp, uuid,
                  txSeen, lastProbe, slept >>

RegisterForgotten(hooks, s) == hooks

Register(hooks, s) == Append(hooks, s)

\* atexit.register(lambda: kill(name, child))
atexit_register(here, s, next) ==
  /\ pc = here
  /\ atexitHooks' = Register(atexitHooks, s)
  /\ trace' = Append(trace, [op |-> here, ok |-> TRUE])
  /\ i' = 0
  /\ Goto(next)
  /\ UNCHANGED << step, killPhase, proc, bindAttempts, bindResult, cp, jc, probes,
                  ready, issued, outstanding, succeeded, resp, uuid, txSeen,
                  lastProbe, slept >>

\* s.terminate(): signals the child; a no-op on a child that is already dead.
terminate(p) == [p EXCEPT !.terminateCalls = @ + 1, !.alive = FALSE]

\* What get("http://localhost:<port>/") can do: raise (no connection), or
\* return a response, whose status the loop does not look at.
ProbeResults == {"raised", "status_ok", "status_error"}

\* try: get(...) / except: ... / break: every returned response ends the loop.
ProbeNeedsOkStatus(r) == r = "status_ok"

ProbeSucceeded(r) == r # "raised"

\* The readiness loop of startSandbox, for i in range(10): what one probe
\* leads to.  ok: get() returned a response; otherwise it raised.
SandboxPollNoTimeout(ok, idx) == IF ok THEN "break" ELSE "retry"

SandboxPollNoBreak(ok, idx) ==
  IF idx = SandboxAttempts - 1 THEN (IF ok THEN "break" ELSE "timeout")
  ELSE "retry"

SandboxPollOutcome(ok, idx) ==
  IF ok THEN "break" ELSE IF idx = SandboxAttempts - 1 THEN "timeout" ELSE "retry"

NexusPollNoTimeout(ok, idx) == IF ok THEN "break" ELSE "retry"

NexusPollOutcome(ok, idx) ==
  IF ok THEN "break" ELSE IF idx = NexusAttempts - 1 THEN "timeout" ELSE "retry"

\* The poll loop is entered in the trace once, however many probes it makes.
TracePoll(here) ==
  IF trace # << >> /\ trace[Len(trace)].op = here
    THEN trace
    ELSE Append(trace, [op |-> here, ok |-> TRUE])

\* One iteration of the readiness loop of startSandbox.  On the last failed
\* attempt the handler evaluates nexus.communicate(); startSandbox has no
\* name nexus (its child is called sandbox), so NameError is raised before
\* the print and before exit(77), and nothing catches it.
SandboxProbe ==
  /\ pc = "sb_poll"
  /\ i < SandboxAttempts
  /\ probes' = [probes EXCEPT !["sandbox"] = @ + 1]
  /\ trace' = TracePoll("sb_poll")
  /\ \E r \in ProbeResults :
       LET o == SandboxPollOutcome(ProbeSucceeded(r), i) IN
       /\ lastProbe' = [svc |-> "sandbox", result |-> r]
       /\ CASE o = "break" ->
                 /\ ready' = [ready EXCEPT !["sandbox"] = TRUE]
                 /\ Goto("nx_rm")
                 /\ UNCHANGED << i, slept >>
            [] o = "retry" ->
                 /\ slept' = [slept EXCEPT !["sandbox"] = @ + SandboxSleep]
                 /\ i' = i + 1
                 /\ Goto(IF i + 1 < SandboxAttempts THEN "sb_poll" ELSE "nx_rm")
                 /\ UNCHANGED ready
            [] OTHER ->
                 /\ Uncaught("not_ready")
                 /\ UNCHANGED << i, ready, slept >>
  /\ UNCHANGED << step, atexitHooks, killPhase, proc, bindAttempts, bindResult, cp, jc,
                  issued, outstanding, succeeded, resp, uuid, txSeen >>

\* One iteration of the readiness loop of startNexus.  On the last failed
\* attempt: nexus.terminate(), print, exit(77).
NexusProbe ==
  /\ pc = "nx_poll"
  /\ i < NexusAttempts
  /\ probes' = [probes EXCEPT !["nexus"] = @ + 1]
  /\ trace' = TracePoll("nx_poll")
  /\ \E r \in ProbeResults :
       LET o == NexusPollOutcome(ProbeSucceeded(r), i) IN
       /\ lastProbe' = [svc |-> "nexus", result |-> r]
       /\ CASE o = "break" ->
                 /\ ready' = [ready EXCEPT !["nexus"] = TRUE]
                 /\ Goto("call")
                 /\ UNCHANGED << i, proc, slept >>
            [] o = "retry" ->
                 /\ slept' = [slept EXCEPT !["nexus"] = @ + NexusSleep]
                 /\ i' = i + 1
                 /\ Goto(IF i + 1 < NexusAttempts THEN "nx_poll" ELSE "call")
                 /\ UNCHANGED << ready, proc >>
            [] OTHER ->
                 /\ proc' = [proc EXCEPT !["nexus"] = terminate(@)]
                 /\ Exit(ExitSkip, "not_ready", << "Nexus timed out" >>)
                 /\ UNCHANGED << i, ready, slept >>
  /\ UNCHANGED << step, atexitHooks, killPhase, bindAttempts, bindResult, cp, jc,
                  issued, outstanding, succeeded, resp, uuid, txSeen >>

\* startSandbox(), statement by statement.
SandboxRm == check_call("sb_rm", "sb_assemble")

SandboxAssembleThenPopen == check_call("sb_assemble", "sb_Popen")

SandboxAssemble == check_call("sb_assemble", "sb_checkPort")

SandboxCheckPort == checkPort("sb_checkPort", SandboxPort, "sb_Popen")

SandboxPopen == Popen("sb_Popen", "sandbox", "sb_register")

SandboxRegister == atexit_register("sb_register", "sandbox", "sb_poll")

startSandbox ==
  \/ SandboxRm
  \/ SandboxAssemble
  \/ SandboxCheckPort
  \/ SandboxPopen
  \/ SandboxRegister
  \/ SandboxProbe

\* startNexus(NEXUS_DB), statement by statement.
NexusRm == check_call("nx_rm", "nx_assemble")

NexusAssemble == check_call("nx_assemble", "nx_superuser")

NexusSuperuser == check_call("nx_superuser", "nx_checkPort")

NexusCheckPort == checkPort("nx_checkPort", NexusPort, "nx_Popen")

NexusPopen == Popen("nx_Popen", "nexus", "nx_register")

NexusRegister == atexit_register("nx_register", "nexus", "nx_poll")

startNexus ==
  \/ NexusRm
  \/ NexusAssemble
  \/ NexusSuperuser
  \/ NexusCheckPort
  \/ NexusPopen
  \/ NexusRegister
  \/ NexusProbe

\* ---------------------------------------------------------------- teardown

\* The hook that runs next: the interpreter runs exit hooks last in, first out.
NextHookFifo == atexitHooks[1]

NextHook == atexitHooks[Len(atexitHooks)]

\* kill(name, s), first half: print, s.terminate().
KillTerminate ==
  /\ pc = "atexit"
  /\ atexitHooks # << >>
  /\ killPhase = "idle"
  /\ proc' = [proc EXCEPT ![NextHook] =
                [terminate(@) EXCEPT !.hookKills = @ + 1]]
  /\ stdout' = Append(stdout, "terminating " \o NextHook \o " ...")
  /\ killPhase' = "terminated"
  /\ UNCHANGED << pc, i, step, exitCode, cause, atexitHooks, bindAttempts, bindResult, cp, jc,
                  probes, ready, issued, outstanding, succeeded, resp, uuid,
                  txSeen, lastProbe, slept, trace >>

\* kill(name, s), second half: s.wait() returns once the child is gone, print.
KillWait ==
  /\ pc = "atexit"
  /\ atexitHooks # << >>
  /\ killPhase = "terminated"
  /\ ~proc[NextHook].alive
  /\ proc' = [proc EXCEPT ![NextHook].waited = TRUE]
  /\ stdout' = Append(stdout, "terminated!")
  /\ killPhase' = "idle"
  /\ atexitHooks' = SubSeq(atexitHooks, 1, Len(atexitHooks) - 1)
  /\ UNCHANGED << pc, i, step, exitCode, cause, bindAttempts, bindResult, cp, jc, probes, ready,
                  issued, outstanding, succeeded, resp, uuid, txSeen, lastProbe, slept, trace >>

\* All hooks have run: the process ends with exitCode.
ProcessExit ==
  /\ pc = "atexit"
  /\ atexitHooks = << >>
  /\ pc' = "done"
  /\ UNCHANGED << i, step, exitCode, cause, atexitHooks, killPhase, proc,
                  bindAttempts, bindResult, cp, jc, probes, ready, issued, outstanding, succeeded,
                  resp, uuid, txSeen, stdout, lastProbe, slept, trace >>

\* Environment: a running child may die on its own.  The script never looks
\* at a child before teardown (the probes go to the port, not to the child),
\* so a death at any earlier moment is the same, for the script, as a death
\* found when teardown begins: the child is already dead when its hook runs.
ChildDies(s) ==
  /\ pc = "atexit"
  /\ killPhase = "idle"
  /\ atexitHooks # << >>
  /\ s = NextHook
  /\ proc[s].alive
  /\ proc' = [proc EXCEPT ![s].alive = FALSE]
  /\ UNCHANGED << pc, i, step, exitCode, cause, atexitHooks, killPhase,
                  bindAttempts, bindResult, cp, jc, probes, ready, issued, outstanding, succeeded,
                  resp, uuid, txSeen, stdout, lastProbe, slept, trace >>

\* ------------------------------------------------------ test-ebics.py parts

\* fail(msg): print(msg); exit(1)
fail(msg, why) == Exit(ExitFail, why, << msg >>)

\* Whether the script passes the response of request k to assertResponse:
\* every post(...) and get(...) of the script is an argument of assertResponse.
WrappedButOne(k) == k # StepIndex("bank-accounts")

Wrapped(k) == TRUE

\* The request that follows request k in the script.
NextStepSkipping(k) == IF k = StepIndex("send-ini") THEN k + 2 ELSE k + 1

NextStep(k) == k + 1

\* if len(resp.json().get("transactions")) != 0: fail(...)
HistoryEmpty(n) == n = ExpectedBefore

\* if len(resp.json().get("transactions")) != 1: fail(...)
HistoryAtLeastOne(n) == n >= ExpectedAfter

HistoryHasOne(n) == n = ExpectedAfter

\* if PREPARED_PAYMENT_UUID == None: fail(...)
UuidMissing(u) == u = "None"

\* Where the script is after request k is dealt with: the body of request
\* "fetch-transactions-again" goes through checkFetchTransactions before the
\* post; after the last request the success marker is printed.
PcOfStep(k) ==
  IF k > NSteps THEN "passed"
  ELSE IF Steps[k] = "fetch-transactions-again" THEN "precheck"
  ELSE "call"

Advance ==
  /\ step' = NextStep(step)
  /\ Goto(PcOfStep(NextStep(step)))

TxLists == UNION {[1..n -> {"tx"}] : n \in 0..MaxTx}

\* The responses the service may give to request k.  Only the fields the
\* script reads are modelled.
Responses(k) ==
  {[NoResp EXCEPT !.ok = FALSE]} \cup
  ( IF Steps[k] \in {"get-transactions", "get-transactions-again"}
      THEN {NoResp} \cup
           {[NoResp EXCEPT !.hasTransactions = TRUE, !.transactions = l] :
              l \in TxLists}
    ELSE IF Steps[k] = "payment-initiations"
      THEN {[NoResp EXCEPT !.uuid = u] : u \in UuidValues}
    ELSE {NoResp} )

\* checkFetchTransactions(dict(level="all", rangeType="all")), evaluated as
\* the json argument before the post is made.  A failing structural check
\* ends the process with a failing code.
CheckFetchTransactions ==
  /\ pc = "precheck"
  /\ \E passes \in BOOLEAN :
       IF passes THEN Goto("call") ELSE Exit(ExitFail, "json_check", << >>)
  /\ UNCHANGED << i, step, atexitHooks, killPhase, proc, bindAttempts, bindResult, cp, jc, probes,
                  ready, issued, outstanding, succeeded, resp, uuid, txSeen, lastProbe, slept, trace >>

\* post(...) / get(...) sends the request and blocks.
IssueRequest ==
  /\ pc = "call"
  /\ step \in 1..NSteps
  /\ issued' = Append(issued, step)
  /\ outstanding' = outstanding \cup {step}
  /\ Goto("await")
  /\ UNCHANGED << i, step, atexitHooks, killPhase, proc, bindAttempts, bindResult, cp, jc, probes,
                  ready, succeeded, resp, uuid, txSeen, lastProbe, slept, trace >>

\* post(...) / get(...) returns the response, or raises (connection error),
\* which nothing catches.
ReceiveResponse ==
  /\ pc = "await"
  /\ outstanding' = outstanding \ {step}
  /\ \/ \E r \in Responses(step) :
          /\ resp' = r
          /\ Goto("assert")
     \/ /\ UNCHANGED resp
        /\ Uncaught("http_error")
  /\ UNCHANGED << i, step, atexitHooks, killPhase, proc, bindAttempts, bindResult, cp, jc, probes,
                  ready, issued, succeeded, uuid, txSeen, lastProbe, slept, trace >>

\* assertResponse(response): returns the response when its status denotes
\* success; otherwise prints diagnostics and ends the process with a failing
\* code.
assertResponse ==
  IF resp.ok
    THEN /\ succeeded' = succeeded \cup {step}
         /\ Goto("after")
    ELSE /\ UNCHANGED succeeded
         /\ Exit(ExitFail, "assert", << "assertResponse: response not ok" >>)

AssertStep ==
  /\ pc = "assert"
  /\ IF Wrapped(step)
       THEN assertResponse
       ELSE /\ UNCHANGED succeeded
            /\ Goto("after")
  /\ UNCHANGED << i, step, atexitHooks, killPhase, proc, bindAttempts, bindResult, cp, jc, probes,
                  ready, issued, outstanding, resp, uuid, txSeen, lastProbe, slept, trace >>

\* What follows the assertResponse of a request that needs nothing more.
AfterPlain ==
  /\ pc = "after"
  /\ Steps[step] \notin {"get-transactions", "get-transactions-again",
                         "payment-initiations", "get-payment-initiation"}
  /\ Advance
  /\ UNCHANGED << i, atexitHooks, killPhase, proc, bindAttempts, bindResult, cp, jc, probes, ready,
                  issued, outstanding, succeeded, resp, uuid, txSeen, lastProbe, slept, trace >>

\* len(resp.json().get("transactions")) compared with the expected count.
\* Without the field, get() gives None and len(None) raises TypeError.
CheckCount(name, asExpected, msg) ==
  /\ pc = "after"
  /\ Steps[step] = name
  /\ IF ~resp.hasTransactions
       THEN /\ Uncaught("bad_body")
            /\ UNCHANGED << step, txSeen, lastProbe, slept, trace >>
       ELSE /\ txSeen' = Append(txSeen, Len(resp.transactions))
            /\ IF asExpected
                 THEN Advance
                 ELSE /\ fail(msg, "count")
                      /\ UNCHANGED step
  /\ UNCHANGED << i, atexitHooks, killPhase, proc, bindAttempts, bindResult, cp, jc,
                  probes, ready, issued, outstanding, succeeded, resp, uuid,
                  lastProbe, slept, trace >>

\* 4, make sure history is empty
AfterHistoryEmpty ==
  CheckCount("get-transactions", HistoryEmpty(Len(resp.transactions)),
             "unexpected number of transactions")

\* 6, history after the payment submission
AfterHistoryOne ==
  CheckCount("get-transactions-again", HistoryHasOne(Len(resp.transactions)),
             "Unexpected number of transactions; should be 1")

\* 5.a: PREPARED_PAYMENT_UUID = resp.json().get("uuid")
AfterPaymentInitiation ==
  /\ pc = "after"
  /\ Steps[step] = "payment-initiations"
  /\ uuid' = resp.uuid
  /\ IF UuidMissing(resp.uuid)
       THEN /\ fail("Payment UUID not received", "uuid")
            /\ UNCHANGED step
       ELSE Advance
  /\ UNCHANGED << i, atexitHooks, killPhase, proc, bindAttempts, bindResult, cp, jc, probes, ready,
                  issued, outstanding, succeeded, resp, txSeen, lastProbe, slept, trace >>

\* checkPreparedPaymentElement(resp.json()): a failing structural check ends
\* the process with a failing code.
AfterPreparedPayment ==
  /\ pc = "after"
  /\ Steps[step] = "get-payment-initiation"
  /\ \E passes \in BOOLEAN :
       IF passes
         THEN Advance
         ELSE /\ Exit(ExitFail, "json_check", << >>)
              /\ UNCHANGED step
  /\ UNCHANGED << i, atexitHooks, killPhase, proc, bindAttempts, bindResult, cp, jc, probes, ready,
                  issued, outstanding, succeeded, resp, uuid, txSeen, lastProbe, slept, trace >>

\* print("Test passed!") and the end of the script: exit status 0.
PrintPassed ==
  /\ pc = "passed"
  /\ Exit(0, "completed", << "Test passed!" >>)
  /\ UNCHANGED << i, step, atexitHooks, killPhase, proc, bindAttempts, bindResult, cp, jc, probes,
                  ready, issued, outstanding, succeeded, resp, uuid, txSeen, lastProbe, slept, trace >>

Scenario ==
  \/ CheckFetchTransactions
  \/ IssueRequest
  \/ ReceiveResponse
  \/ AssertStep
  \/ AfterPlain
  \/ AfterHistoryEmpty
  \/ AfterPaymentInitiation
  \/ AfterPreparedPayment
  \/ AfterHistoryOne
  \/ PrintPassed

Teardown ==
  \/ KillTerminate
  \/ KillWait
  \/ ProcessExit

\* The steps of the test process itself.
Program ==
  \/ startSandbox
  \/ startNexus
  \/ Scenario
  \/ Teardown

Next ==
  \/ Program
  \/ \E s \in Services : ChildDies(s)

Spec == Init /\ [][Next]_vars

\* Every blocking call of the process returns or raises: builds end, HTTP
\* calls are answered or fail, and a terminated child is reaped by wait().
FairSpec == Spec /\ WF_vars(Program)

\* -------------------------------------------------- checkPort on its own

\* Calls of checkPort made in one run of it on its own.
MaxCalls == 3

\* Changes other processes make to the ports during such a run.
MaxEnvEvents == 2

\* A port, as bind() with SO_REUSEADDR sees it: nobody holds it, a closed
\* connection lingers on it (bind succeeds), or another process listens on
\* it (bind fails).
PortStates == {"free", "time_wait", "listening"}

Bindable(state) == state \in {"free", "time_wait"}

CpCalls == Cardinality({n \in 1..Len(cp.log) : cp.log[n].kind = "call"})

CpEnvEvents == Cardinality({n \in 1..Len(cp.log) : cp.log[n].kind = "env"})

CpEntry(kind, port, result, open) ==
  [kind |-> kind, port |-> port, before |-> cp.before, after |-> cp.ports,
   open |-> open, result |-> result]

\* s.close(): the throwaway socket lets go of the port.
CloseForgotten(open, port) == open

CloseSocket(open, port) == open \ {port}

\* checkPort(port), up to the bind: socket(), setsockopt(SO_REUSEADDR),
\* bind().  A failed bind goes to the handler: print, exit(77).
CpBind(p) ==
  /\ cp.pc = "idle"
  /\ CpCalls < MaxCalls
  /\ IF Bindable(cp.ports[p])
       THEN cp' = [cp EXCEPT !.pc = "bound", !.port = p, !.before = cp.ports,
                             !.open = @ \cup {p}]
       ELSE IF CheckPortOutcome(FALSE) = "exit"
         THEN cp' = [cp EXCEPT
                       !.pc = "exited", !.port = p, !.before = cp.ports,
                       !.log = Append(@, [CpEntry("call", p, "exit77", cp.open)
                                            EXCEPT !.before = cp.ports])]
         ELSE cp' = [cp EXCEPT
                       !.port = p, !.before = cp.ports,
                       !.log = Append(@, [CpEntry("call", p, "returned", cp.open)
                                            EXCEPT !.before = cp.ports])]
  /\ UNCHANGED << pc, i, step, exitCode, cause, atexitHooks, killPhase, proc,
                  bindAttempts, bindResult, probes, ready, issued, outstanding,
                  succeeded, resp, uuid, txSeen, stdout, lastProbe, slept,
                  trace, jc >>

\* checkPort(port), after a successful bind: s.close(), return.
CpClose ==
  /\ cp.pc = "bound"
  /\ LET open == CloseSocket(cp.open, cp.port) IN
       cp' = [cp EXCEPT
                !.pc = "idle", !.open = open,
                !.log = Append(@, CpEntry("call", cp.port, "returned", open))]
  /\ UNCHANGED << pc, i, step, exitCode, cause, atexitHooks, killPhase, proc,
                  bindAttempts, bindResult, probes, ready, issued, outstanding,
                  succeeded, resp, uuid, txSeen, stdout, lastProbe, slept,
                  trace, jc >>

\* Environment, between two calls: another process starts to listen on a
\* port, stops (its connections linger), or the lingering ends.
CpEnv(p, from, to) ==
  /\ cp.pc = "idle"
  /\ CpEnvEvents < MaxEnvEvents
  /\ cp.ports[p] \in from
  /\ cp' = [cp EXCEPT
              !.ports[p] = to,
              !.log = Append(@, [CpEntry("env", p, "env", cp.open)
                                   EXCEPT !.before = cp.ports,
                                          !.after = [cp.ports EXCEPT ![p] = to]])]
  /\ UNCHANGED << pc, i, step, exitCode, cause, atexitHooks, killPhase, proc,
                  bindAttempts, bindResult, probes, ready, issued, outstanding,
                  succeeded, resp, uuid, txSeen, stdout, lastProbe, slept,
                  trace, jc >>

CpOtherListens(p) == CpEnv(p, {"free", "time_wait"}, "listening")

CpOtherCloses(p) == CpEnv(p, {"listening"}, "time_wait")

CpLingerEnds(p) == CpEnv(p, {"time_wait"}, "free")

PortInit ==
  /\ ScriptInit
  /\ jc = NoJc
  /\ \E ports \in [Ports -> PortStates] :
       cp = [pc |-> "idle", ports |-> ports, port |-> SandboxPort,
             before |-> ports, open |-> {}, log |-> << >>]

PortNext ==
  \/ \E p \in Ports : CpBind(p)
  \/ CpClose
  \/ \E p \in Ports : CpOtherListens(p)
  \/ \E p \in Ports : CpOtherCloses(p)
  \/ \E p \in Ports : CpLingerEnds(p)

\* checkPort called again and again, on ports in any state.
SpecPort == PortInit /\ [][PortNext]_vars

\* ------------------------------------------- the JSON checkers on their own

\* Checks a CheckJsonTop holds at most.
MaxChecks == 2

\* Nested checks a CheckJsonField holds at most.
MaxNested == 1

FieldNames == {"a", "b"}

\* JSON objects: functions from the fields present to their values, which
\* are objects again.  Two levels of nesting below the document.
EmptyObject == << >>

Objects1 == UNION {[S -> {EmptyObject}] : S \in SUBSET FieldNames}

Objects2 == UNION {[S -> Objects1] : S \in SUBSET FieldNames}

SeqsUpTo(S, n) == UNION {[1..k -> S] : k \in 0..n}

\* CheckJsonField(name, nested): without nested checks, and with nested
\* checks that have none themselves.
LeafChecks == {[name |-> f, nested |-> << >>] : f \in FieldNames}

FieldChecks ==
  {[name |-> f, nested |-> ns] : f \in FieldNames, ns \in SeqsUpTo(LeafChecks, MaxNested)}

\* CheckJsonField.check(json) as written: a missing field prints and calls
\* sys.exit(1); a present field starts the loop over self.nested, whose body
\* reads self.nested_check, an attribute no CheckJsonField has, so the first
\* iteration raises AttributeError.  Without nested checks it returns.
FieldCheck(c, json) ==
  IF c.name \notin DOMAIN json THEN "exit1"
  ELSE IF c.nested = << >> THEN "ok"
  ELSE "AttributeError"

\* What the loop of CheckJsonTop.check does after a check: an exit or an
\* exception of check.check(json) leaves the loop, nothing catches it.
TopSwallows(r) == "next"

TopAfter(r) == IF r = "ok" THEN "next" ELSE "stop"

\* One iteration of CheckJsonTop.check: check.check(json) for the next check.
JcStep ==
  /\ jc.pc = "loop"
  /\ jc.idx <= Len(jc.checks)
  /\ LET r == FieldCheck(jc.checks[jc.idx], jc.doc) IN
       jc' = [jc EXCEPT
                !.log = Append(@, [idx |-> jc.idx, doc |-> jc.doc, result |-> r]),
                !.idx = @ + 1,
                !.pc = IF TopAfter(r) = "next" THEN "loop" ELSE "raised",
                !.result = IF TopAfter(r) = "next" THEN @ ELSE r]
  /\ UNCHANGED << pc, i, step, exitCode, cause, atexitHooks, killPhase, proc,
                  bindAttempts, bindResult, probes, ready, issued, outstanding,
                  succeeded, resp, uuid, txSeen, stdout, lastProbe, slept,
                  trace, cp >>

\* The loop of CheckJsonTop.check is over: check returns.
JcReturn ==
  /\ jc.pc = "loop"
  /\ jc.idx > Len(jc.checks)
  /\ jc' = [jc EXCEPT !.pc = "returned", !.result = "ok"]
  /\ UNCHANGED << pc, i, step, exitCode, cause, atexitHooks, killPhase, proc,
                  bindAttempts, bindResult, probes, ready, issued, outstanding,
                  succeeded, resp, uuid, txSeen, stdout, lastProbe, slept,
                  trace, cp >>

JsonInit ==
  /\ ScriptInit
  /\ cp = NoCp
  /\ \E doc \in Objects2, checks \in SeqsUpTo(FieldChecks, MaxChecks) :
       jc = [pc |-> "loop", doc |-> doc, checks |-> checks, idx |-> 1,
             log |-> << >>, result |-> "running"]

JsonNext ==
  \/ JcStep
  \/ JcReturn

\* CheckJsonTop(*checks).check(doc), for every document and checks in bounds.
SpecJson == JsonInit /\ [][JsonNext]_vars

\* ------------------------------------------------------------ properties

Range(seq) == {seq[n] : n \in 1..Len(seq)}

\* Request `name` of the scenario was issued.
Issued(name) == StepIndex(name) \in Range(issued)

Ended == pc \in {"atexit", "done"}

Attempts(s) == IF s = "sandbox" THEN SandboxAttempts ELSE NexusAttempts

PortOf(s) == IF s = "sandbox" THEN SandboxPort ELSE NexusPort

\* Service s was probed through its whole budget and never answered.
NeverReachable(s) == probes[s] = Attempts(s) /\ ~ready[s]

\* C1: no scenario request is issued before startSandbox and then startNexus
\* have each returned after a successful readiness probe; startNexus does not
\* begin before the sandbox is ready; without both ready, nothing is issued.
C1_ReadyBeforeScenario ==
  /\ issued # << >> =>
       /\ ready["sandbox"] /\ ready["nexus"]
       /\ probes["sandbox"] >= 1 /\ probes["nexus"] >= 1
       /\ issued[1] = StepIndex("host")
  /\ (pc \in {"call", "await", "assert", "after", "precheck", "passed"}) =>
       ready["sandbox"] /\ ready["nexus"]
  /\ (probes["nexus"] > 0 \/ bindAttempts[NexusPort] > 0) => ready["sandbox"]

C1_Witness ==
  /\ Len(issued) = 1
  /\ issued[1] = StepIndex("host")
  /\ ready["sandbox"] /\ ready["nexus"]
  /\ probes["sandbox"] > 1 /\ probes["nexus"] > 1

\* C2: a service that never becomes reachable makes the run end with exit
\* code 77 and without any scenario request.
C2_UnreachableExits77 ==
  \A s \in Services :
    (pc = "done" /\ NeverReachable(s)) =>
       (exitCode = ExitSkip /\ issued = << >>)

\* C3: every spawned child is eventually terminated and waited for by its
\* exit hook, however the run ends.
\* (No child is spawned after the process has ended, so "every spawned child
\* is eventually reaped" is: the run ends, and from then on every spawned
\* child has been terminated by its hook and waited for.)
C3_SpawnedEventuallyKilled ==
  <>[](/\ pc = "done"
       /\ \A s \in Services :
            proc[s].spawned => (proc[s].hookKills >= 1 /\ proc[s].waited))

\* The run ended on an uncaught exception of the nexus bootstrap, after the
\* sandbox was spawned, and the sandbox was reaped by its hook.
C3_Witness ==
  /\ pc = "done"
  /\ cause = "build"
  /\ proc["sandbox"].spawned
  /\ proc["sandbox"].hookKills = 1
  /\ proc["sandbox"].waited
  /\ ~proc["nexus"].spawned

\* C4: over the whole run every spawned child receives exactly one terminate
\* call, also when the nexus readiness poll times out.
C4_ExactlyOneTerminate ==
  \A s \in Services :
    (pc = "done" /\ proc[s].spawned) => proc[s].terminateCalls = 1

\* C5: a response that assertResponse rejects ends the run with a failing
\* exit code and no request is issued after it: every request but the last
\* issued one has passed assertResponse.
C5_NoCallAfterFailure ==
  /\ \A n \in 1..(Len(issued) - 1) : issued[n] \in succeeded
  /\ (~resp.ok /\ pc # "assert") =>
       /\ Ended
       /\ exitCode = ExitFail
       /\ cause = "assert"
       /\ outstanding = {}

C5_Witness ==
  /\ pc = "done"
  /\ ~resp.ok
  /\ cause = "assert"
  /\ Len(issued) = StepIndex("send-hia")

\* C6: with the uuid absent or empty in the payment-initiation response, the
\* run fails with exit 1 and neither the GET of the prepared payment nor the
\* submit is issued.
C6_NoSubmitWithoutUuid ==
  (uuid \in {"None", ""}) =>
     /\ ~Issued("get-payment-initiation")
     /\ ~Issued("submit")
     /\ pc = "done" => exitCode = ExitFail

\* C7: the success marker is printed only after the counts 0 (before the
\* payment) and 1 (after it) were seen; any other count prints a message and
\* exits 1; with a non-zero count before the payment, no payment is
\* prepared or submitted.
C7_CountsGateSuccess ==
  /\ ("Test passed!" \in Range(stdout)) => txSeen = << ExpectedBefore, ExpectedAfter >>
  /\ (txSeen # << >> /\ txSeen # << ExpectedBefore >>
        /\ txSeen # << ExpectedBefore, ExpectedAfter >>) =>
       /\ Ended
       /\ exitCode = ExitFail
       /\ cause = "count"
       /\ \/ "unexpected number of transactions" \in Range(stdout)
          \/ "Unexpected number of transactions; should be 1" \in Range(stdout)
       /\ "Test passed!" \notin Range(stdout)
  /\ (txSeen # << >> /\ txSeen[1] # ExpectedBefore) =>
       /\ ~Issued("payment-initiations")
       /\ ~Issued("submit")
  /\ Len(txSeen) <= 2

C7_Witness ==
  /\ pc = "done"
  /\ "Test passed!" \in Range(stdout)
  /\ txSeen = << 0, 1 >>
  /\ exitCode = 0

\* C8: exit code 0 only for a completed scenario, 77 exactly for the
\* environment failures (busy port, service not ready), another non-zero
\* code for every other failure.
C8_ExitCodePartition ==
  pc = "done" =>
    /\ (exitCode = 0) <=> (cause = "completed")
    /\ (exitCode = ExitSkip) <=> (cause \in {"port_busy", "not_ready"})
    /\ (cause \in {"assert", "json_check", "count", "uuid", "build"}) =>
         exitCode \notin {0, ExitSkip}

\* C9: a port that cannot be bound is tried once; the run ends with 77, the
\* server of that service is never spawned, no probe of it and no scenario
\* request follows; a sandbox already running is reaped by its hook.
C9_BusyPortIsFatal ==
  \A s \in Services :
    bindResult[PortOf(s)] = "error" =>
      /\ bindAttempts[PortOf(s)] = 1
      /\ Ended
      /\ exitCode = ExitSkip
      /\ ~proc[s].spawned
      /\ probes[s] = 0
      /\ issued = << >>
      /\ (s = "nexus" /\ pc = "done") =>
           /\ proc["sandbox"].spawned
           /\ proc["sandbox"].hookKills = 1
           /\ proc["sandbox"].waited

C9_Witness ==
  /\ pc = "done"
  /\ bindResult[NexusPort] = "error"
  /\ exitCode = ExitSkip
  /\ proc["sandbox"].waited

\* C10: the requests are issued in the order of the script, each at most
\* once, request k only after requests 1..k-1 passed, and never two at once.
C10_TotalOrder ==
  /\ \A n \in 1..Len(issued) : issued[n] = n
  /\ Len(issued) <= NSteps
  /\ \A n \in 1..Len(issued) : \A m \in 1..(n - 1) : m \in succeeded
  /\ Cardinality(outstanding) <= 1
  /\ ("Test passed!" \in Range(stdout)) => succeeded = 1..NSteps

C10_Witness ==
  /\ pc = "done"
  /\ exitCode = 0
  /\ Len(issued) = NSteps
  /\ issued[StepIndex("submit")] = StepIndex("submit")

SleepOf(s) == IF s = "sandbox" THEN SandboxSleep ELSE NexusSleep

PollPc(s) == IF s = "sandbox" THEN "sb_poll" ELSE "nx_poll"

RegisterPc(s) == IF s = "sandbox" THEN "sb_register" ELSE "nx_register"

\* The statements of startSandbox and of startNexus, in source order.
SandboxOrder ==
  << "sb_rm", "sb_assemble", "sb_checkPort", "sb_Popen", "sb_register",
     "sb_poll" >>

NexusOrder ==
  << "nx_rm", "nx_assemble", "nx_superuser", "nx_checkPort", "nx_Popen",
     "nx_register", "nx_poll" >>

BuildOps == {"sb_rm", "sb_assemble", "nx_rm", "nx_assemble", "nx_superuser"}

ServiceOfOp(op) == IF op \in Range(SandboxOrder) THEN "sandbox" ELSE "nexus"

TraceOps == [n \in 1..Len(trace) |-> trace[n].op]

Occurrences(op) == Cardinality({n \in 1..Len(trace) : trace[n].op = op})

Spawned == {s \in Services : proc[s].spawned}

\* C12: the poll loop makes at most 10 (sandbox) / 80 (nexus) probes, sleeps
\* 2 s / 1 s after each failed probe it retries, and returns on the first
\* probe that is answered, without a further probe or sleep; it always ends.
C12_BoundedPoll ==
  \A s \in Services :
    /\ probes[s] <= Attempts(s)
    /\ (lastProbe.svc = s /\ lastProbe.result # "raised") =>
         (ready[s] /\ pc # PollPc(s))
    /\ ready[s] =>
         (probes[s] >= 1 /\ slept[s] = SleepOf(s) * (probes[s] - 1))
    /\ (~ready[s] /\ pc = PollPc(s)) =>
         (probes[s] < Attempts(s) /\ slept[s] = SleepOf(s) * probes[s])
    /\ NeverReachable(s) =>
         (Ended /\ slept[s] = SleepOf(s) * (Attempts(s) - 1))

C12_Witness ==
  /\ ready["sandbox"] /\ probes["sandbox"] = SandboxAttempts
  /\ slept["sandbox"] = 18
  /\ ready["nexus"] /\ probes["nexus"] = NexusAttempts
  /\ slept["nexus"] = 79
  /\ pc = "call"

\* C13: each supervisor runs its statements in source order: remove the
\* database, build, (nexus) create the superuser, check the port, spawn,
\* register the hook, poll.  The port is bound-checked before the spawn and
\* the hook is registered by the statement right after the spawn.
C13_SupervisorOrder ==
  /\ Len(trace) <= Len(SandboxOrder \o NexusOrder)
  /\ TraceOps = SubSeq(SandboxOrder \o NexusOrder, 1, Len(trace))
  /\ \A s \in Services :
       /\ proc[s].spawned => bindResult[PortOf(s)] = "bound"
       /\ (proc[s].spawned /\ Occurrences(RegisterPc(s)) = 0) =>
            pc = RegisterPc(s)
       /\ probes[s] > 0 => Occurrences(RegisterPc(s)) = 1

C13_Witness ==
  /\ TraceOps = SandboxOrder \o NexusOrder
  /\ ready["sandbox"] /\ ready["nexus"]
  /\ Len(atexitHooks) = 2

\* C14: a failing build or bootstrap command (rm, assemble, superuser) ends
\* the run at once with a non-zero exit code: it is not run again, nothing
\* runs after it, the server of that service is not spawned, its port is not
\* checked and no scenario request is issued.
C14_BuildFailureAborts ==
  \A n \in 1..Len(trace) :
    (trace[n].op \in BuildOps /\ ~trace[n].ok) =>
      /\ n = Len(trace)
      /\ Occurrences(trace[n].op) = 1
      /\ Ended
      /\ exitCode = ExitFail
      /\ cause = "build"
      /\ ~proc[ServiceOfOp(trace[n].op)].spawned
      /\ bindAttempts[PortOf(ServiceOfOp(trace[n].op))] = 0
      /\ issued = << >>

C14_Witness ==
  /\ pc = "done"
  /\ trace[Len(trace)] = [op |-> "nx_superuser", ok |-> FALSE]
  /\ exitCode = ExitFail
  /\ proc["sandbox"].waited

\* C17: nothing of startNexus runs before the sandbox is ready; each service
\* is spawned at most once; hooks exist only for spawned children, one per
\* child (the hook of a child is registered by the statement that follows
\* its spawn, so the counts agree everywhere but between the two).
C17_OneAfterTheOther ==
  /\ (\E n \in 1..Len(trace) : trace[n].op \in Range(NexusOrder)) =>
       ready["sandbox"]
  /\ Occurrences("sb_Popen") <= 1 /\ Occurrences("nx_Popen") <= 1
  /\ Occurrences("sb_register") <= 1 /\ Occurrences("nx_register") <= 1
  /\ Range(atexitHooks) \subseteq Spawned
  /\ (~Ended /\ pc \notin {"sb_register", "nx_register"}) =>
       /\ Len(atexitHooks) = Cardinality(Spawned)
       /\ Range(atexitHooks) = Spawned
  /\ Occurrences("sb_register") + Occurrences("nx_register")
       = Cardinality({s \in Spawned : pc # RegisterPc(s)})

\* C17 as stated: the hooks registered so far are always as many as the
\* children spawned so far.
C17_HooksAlwaysEqualSpawned ==
  Occurrences("sb_register") + Occurrences("nx_register") = Cardinality(Spawned)

C17_Witness ==
  /\ pc = "call"
  /\ Spawned = Services
  /\ atexitHooks = << "sandbox", "nexus" >>

\* C18: with both children spawned, teardown reaps nexus first: the sandbox
\* is not terminated by its hook before nexus was terminated and waited for.
C18_ReverseTeardown ==
  (proc["nexus"].spawned /\ proc["sandbox"].hookKills >= 1) =>
     /\ proc["nexus"].hookKills = 1
     /\ proc["nexus"].waited
     /\ pc \in {"atexit", "done"}

C18_Witness ==
  /\ pc = "done"
  /\ cause = "assert"
  /\ proc["nexus"].waited /\ proc["sandbox"].waited
  /\ stdout[Len(stdout) - 3] = "terminating nexus ..."
  /\ stdout[Len(stdout) - 1] = "terminating sandbox ..."

\* C19: a probe succeeds as soon as get() returns a response, whatever its
\* status; only a raised error is a failed attempt.  A root endpoint that
\* answers with an error status makes the service ready.
C19_AnyResponseIsReady ==
  \A s \in Services :
    lastProbe.svc = s =>
      /\ lastProbe.result \in {"status_ok", "status_error"} => ready[s]
      /\ lastProbe.result = "raised" => ~ready[s]

C19_Witness ==
  /\ lastProbe = [svc |-> "nexus", result |-> "status_error"]
  /\ ready["nexus"]
  /\ issued # << >>

\* C11: checkPort on a free port returns normally and leaves every port as
\* it was, the throwaway socket closed; so a second call right after it finds
\* the port free and returns normally too.
C11_CheckPortIdempotent ==
  /\ cp.pc = "idle" => cp.open = {}
  /\ \A n \in 1..Len(cp.log) :
       LET e == cp.log[n] IN
       (e.kind = "call" /\ e.before[e.port] = "free") =>
         /\ e.result = "returned"
         /\ e.after = e.before
         /\ e.open = {}
         /\ (n < Len(cp.log) /\ cp.log[n + 1].kind = "call"
               /\ cp.log[n + 1].port = e.port) =>
              /\ cp.log[n + 1].before = e.before
              /\ cp.log[n + 1].result = "returned"
              /\ cp.log[n + 1].after = e.before

C11_Witness ==
  /\ cp.pc = "idle"
  /\ Len(cp.log) = 2
  /\ \A n \in 1..2 :
       /\ cp.log[n].kind = "call"
       /\ cp.log[n].port = NexusPort
       /\ cp.log[n].before[NexusPort] = "free"
       /\ cp.log[n].result = "returned"
  /\ cp.ports[NexusPort] = "free"

\* What the field check is to do: fail on a missing field, otherwise apply
\* the nested checks, in order, to the value of the field.
RECURSIVE FieldCheckWanted(_, _)
FieldCheckWanted(c, json) ==
  IF c.name \notin DOMAIN json THEN "exit1"
  ELSE LET failing == {k \in 1..Len(c.nested) :
                         FieldCheckWanted(c.nested[k], json[c.name]) # "ok"}
       IN IF failing = {} THEN "ok" ELSE "exit1"

\* C15: a field check returns normally when the field is present and all
\* its nested checks pass on the value of the field, and exits with code 1
\* when the field, or a nested one, is missing.
C15_FieldCheckRecurses ==
  \A n \in 1..Len(jc.log) :
    jc.log[n].result = FieldCheckWanted(jc.checks[jc.log[n].idx], jc.doc)

\* C16: CheckJsonTop.check runs its checks in the order given, on the one
\* document, returns only if every check passed, and runs no check after
\* the first that does not pass.
C16_TopShortCircuits ==
  /\ \A n \in 1..Len(jc.log) :
       /\ jc.log[n].idx = n
       /\ jc.log[n].doc = jc.doc
       /\ jc.log[n].result # "ok" =>
            (n = Len(jc.log) /\ jc.pc = "raised" /\ jc.result = jc.log[n].result)
  /\ Len(jc.log) <= Len(jc.checks)
  /\ jc.pc = "returned" =>
       /\ jc.result = "ok"
       /\ Len(jc.log) = Len(jc.checks)
       /\ \A k \in 1..Len(jc.checks) : FieldCheck(jc.checks[k], jc.doc) = "ok"
  /\ jc.pc = "raised" => jc.result # "ok"

\* Two checks, the first fails: the second is never run.
C16_Witness ==
  /\ Len(jc.checks) = 2
  /\ jc.pc = "raised"
  /\ Len(jc.log) = 1
  /\ jc.log[1].result = "exit1"
  /\ FieldCheck(jc.checks[2], jc.doc) = "ok"

====
